---- MODULE Spec2Model ----
(***************************************************************************)
(* Model of wgpu-test.                                                     *)
(*                                                                         *)
(* Renderer: the resource registry (Renderer::upload_model,                *)
(* Renderer::upload_atlas), the two render stages (ForwardRenderStage,     *)
(* SpriteOverlayRenderStage) and the per-frame orchestration               *)
(* (Renderer::draw_frame).  The GPU device and queue are external: the     *)
(* model keeps what the code hands to them (textures created, commands     *)
(* recorded into a command encoder, command buffers submitted).            *)
(*                                                                         *)
(* Application: the camera (Camera::pan_horizonal, Camera::pan_vertical),  *)
(* the input manager (InputManager::update) and the application state      *)
(* (App::handle_event, App::generate_frame_packet).  f32 quantities are     *)
(* kept in fixed point: angles as whole multiples of 1/UnitsPerRad rad, a  *)
(* direction as its heading and elevation angles, velocities as whole      *)
(* numbers; f32 rounding is not part of the model.                         *)
(***************************************************************************)
EXTENDS Integers, Sequences, FiniteSets

\* ------------------------------------------------------------------ bounds
MaxModels == 2      \* upload_model calls explored
MaxAtlases == 2     \* upload_atlas calls explored
MaxFrames == 2      \* draw_frame calls explored
MaxGroups == 2      \* most groups (model groups + sprite groups) of a packet
MaxTicks == 2       \* App::tick calls explored

\* ------------------------------------------------------------ input values
Images == {"rgba"}
IndexCounts == {36}        \* data.indices.len() of the meshes uploaded
InstCounts == {1}           \* instances.len() / sprites.len() of a group
ModelIds == 0..MaxModels    \* MaxModels itself is never issued
AtlasIds == 0..MaxAtlases   \* MaxAtlases itself is never issued
Views == {"view"}
Projs == {"proj"}

\* model_data.rs: ModelData { vertices, indices, texture }
ModelData == [indices_len : IndexCounts, texture : Images]

\* frame_packet.rs: FramePacketModel { model_id, instances }
FramePacketModel == [model_id : ModelIds, instances : InstCounts]

\* frame_packet.rs: FramePacketSprites { atlas_id, sprites }
FramePacketSprites == [atlas_id : AtlasIds, sprites : InstCounts]

SeqUpTo(S, n) == UNION {[1..k -> S] : k \in 0..n}

\* frame_packet.rs: FramePacket { view, proj, models, overlay_sprites }
FramePacket ==
    UNION {[view : Views, proj : Projs,
            models : [1..m -> FramePacketModel],
            overlay_sprites : SeqUpTo(FramePacketSprites, MaxGroups - m)]
           : m \in 0..MaxGroups}

\* swapchain.get_next_texture() : Result<SwapChainOutput, TimeOut>
AcquireResults == {"Ok", "Err"}

NoPanic == "none"

\* ------------------------------------------------------------------- state
VARIABLES
    next_model_id,      \* Renderer.next_model_id
    models,             \* Renderer.models : ModelId -> GpuModel
    next_atlas_id,      \* Renderer.next_atlas_id
    atlases,            \* Renderer.atlases : AtlasId -> GpuAtlas
    forward_tbg,        \* ForwardRenderStage.texture_bind_groups
    sprite_tbg,         \* SpriteOverlayRenderStage.texture_bind_groups
    device_textures,    \* textures the device has created, per creating function
    encoder,            \* commands recorded into the latest command encoder
    queue,              \* command buffers submitted so far, per encoder label
    submitted,          \* commands of the latest submitted command buffer
    last_call,          \* the latest API call: name, argument, return value
    trace,              \* the calls the latest draw_frame made, in order
    draw_calls,         \* number of draw_frame calls so far
    issued_models,      \* ids returned by upload_model, in call order
    issued_atlases,     \* ids returned by upload_atlas, in call order
    panicked,           \* NoPanic, or the message of the panic that aborted
    app,                \* the App: input manager, camera, velocity, object
    camera,             \* a Camera whose methods are called directly
    ticks,              \* number of App::tick calls so far
    app_args,           \* the handles App::new was called with
    main_thread,        \* where the thread running main() is
    draw_thread         \* where the thread main() spawns is

registry == <<next_model_id, models, next_atlas_id, atlases, forward_tbg,
              sprite_tbg, device_textures>>
gpu == <<encoder, queue, submitted>>
history == <<last_call, trace, draw_calls, issued_models, issued_atlases>>
application == <<app, camera>>
host == <<ticks, app_args, main_thread, draw_thread>>
vars == <<registry, gpu, history, panicked, application, host>>

EmptyMap == [k \in {} |-> 0]

\* HashMap::insert that stores the value under every key of the map
InsertClobbering(map, key, value) ==
    [k \in (DOMAIN map) \cup {key} |-> value]

\* HashMap::insert
Insert(map, key, value) ==
    [k \in (DOMAIN map) \cup {key} |-> IF k = key THEN value ELSE map[k]]

\* ------------------------------------------------------------------ angles
\* cgmath Rad<f32>: an angle is a whole number of units of 1/UnitsPerRad rad.
UnitsPerRad == 25600
FRAC_PI_2 == 40212          \* std::f32::consts::FRAC_PI_2, in angle units
PanMargin == 256            \* Rad(0.01), in angle units
FullTurn == 4 * FRAC_PI_2

\* cgmath: Deg(d).into() : Rad
Deg(d) == (d * FRAC_PI_2) \div 90

\* ------------------------------------------------------------------ camera
\* A direction (a unit Vector3<f32>) is kept as its heading az, measured from
\* +X towards +Y, and its elevation el above the XY plane:
\*     (cos el * cos az, cos el * sin az, sin el).
\* nan: the components are not numbers.
NaNDirection == [az |-> 0, el |-> 0, nan |-> TRUE]

\* Vector3::new(x, y, z).normalize(), for the vectors on the 45 degree grid
normalize(v) ==
    LET x == v[1]
        y == v[2]
        z == v[3]
        az == CASE x > 0 /\ y = 0 -> 0
                [] x > 0 /\ y > 0 /\ x = y -> Deg(45)
                [] x = 0 /\ y > 0 -> Deg(90)
                [] x < 0 /\ y > 0 /\ -x = y -> Deg(135)
                [] x < 0 /\ y = 0 -> Deg(180)
                [] x < 0 /\ y < 0 /\ x = y -> Deg(225)
                [] x = 0 /\ y < 0 -> Deg(270)
                [] x > 0 /\ y < 0 /\ x = -y -> Deg(315)
                [] x = 0 /\ y = 0 /\ z # 0 -> 0
        h == IF x # 0 THEN (IF x > 0 THEN x ELSE -x)
                      ELSE (IF y > 0 THEN y ELSE -y)
        el == CASE z = 0 -> 0
                [] z # 0 /\ x = 0 /\ y = 0 -> IF z > 0 THEN FRAC_PI_2 ELSE -FRAC_PI_2
                [] z > 0 /\ (x = 0 \/ y = 0) /\ h = z -> Deg(45)
                [] z < 0 /\ (x = 0 \/ y = 0) /\ h = -z -> Deg(-45)
    IN  [az |-> az, el |-> el, nan |-> FALSE]

\* impl Default for Camera
CameraDefault ==
    [location |-> <<0, 0, 0>>,
     direction |-> normalize(<<1, 0, 0>>),
     near_clip |-> "0.1",
     far_clip |-> "1000.0",
     vertical_fov |-> Deg(90)]

\* Camera::view
view(cam) ==
    [fn |-> "look_at_dir", eye |-> cam.location, dir |-> cam.direction,
     up |-> <<0, 0, 1>>]

\* Camera::proj
proj(cam, aspect_ratio) ==
    [fn |-> "perspective", fovy |-> cam.vertical_fov, aspect |-> aspect_ratio,
     near |-> cam.near_clip, far |-> cam.far_clip]

\* Matrix3::from_axis_angle(+Z, angle) * direction, with the heading kept
\* inside (-180, 180] degrees by saturation
RotateAboutZClamped(direction, angle) ==
    IF direction.nan THEN NaNDirection
    ELSE LET a == direction.az + angle
         IN  [direction EXCEPT !.az = IF a >= FullTurn THEN FullTurn - 1
                                      ELSE IF a < 0 THEN 0 ELSE a]

\* Matrix3::from_axis_angle(+Z, angle) * direction: the right-hand rotation
\* about +Z turns the heading by angle and keeps the elevation.
RotateAboutZ(direction, angle) ==
    IF direction.nan THEN NaNDirection
    ELSE [direction EXCEPT !.az = (@ + angle) % FullTurn]

\* Camera::pan_horizonal turning by the size of the angle, whatever its sign
pan_horizonal_abs(cam, angle) ==
    [cam EXCEPT !.direction =
        RotateAboutZ(@, 0 - (IF angle < 0 THEN 0 - angle ELSE angle))]

\* Camera::pan_horizonal rotating by +angle
pan_horizonal_left(cam, angle) ==
    [cam EXCEPT !.direction = RotateAboutZ(@, angle)]

\* Camera::pan_horizonal
pan_horizonal(cam, angle) ==
    [cam EXCEPT !.direction = RotateAboutZ(@, 0 - angle)]

\* self.direction.cross([0, 0, 1]) is the zero vector: the direction is
\* vertical (the cross product has length cos el).
CrossIsZero(direction) ==
    ~direction.nan /\ direction.el \in {FRAC_PI_2, -FRAC_PI_2}

\* self.direction.cross([0.0, 0.0, 1.0].into()).normalize(): the horizontal
\* unit vector to the right of the direction; the zero vector normalizes to
\* not-a-number components.
RightAxis(direction) ==
    IF direction.nan \/ CrossIsZero(direction) THEN NaNDirection
    ELSE [az |-> (direction.az - FRAC_PI_2) % FullTurn, el |-> 0, nan |-> FALSE]

\* self.direction.dot([0.0, 0.0, 1.0].into()).acos(): the angle between the
\* direction and +Z
AngleToZ(direction) == FRAC_PI_2 - direction.el

\* current_angle taken to be the angle from +Z itself
current_angle_from_zenith(direction) == AngleToZ(direction)

\* let current_angle = Rad(FRAC_PI_2 - self.direction.dot(..).acos())
current_angle(direction) == FRAC_PI_2 - AngleToZ(direction)

\* max_pan without the margin
max_pan_no_margin(current) == FRAC_PI_2 - current

\* let max_pan = Rad(FRAC_PI_2) - current_angle - Rad(0.01)
max_pan(current) == FRAC_PI_2 - current - PanMargin

\* let min_pan = Rad(-FRAC_PI_2) - current_angle + Rad(0.01)
min_pan(current) == (0 - FRAC_PI_2) - current + PanMargin

\* the clamp with the upper comparison left out
ClampPanLowerOnly(pan_angle, lo, hi) ==
    IF pan_angle < lo THEN lo ELSE pan_angle

\* if pan_angle > max_pan { max_pan } else if pan_angle < min_pan { min_pan }
\* else { pan_angle }
ClampPan(pan_angle, lo, hi) ==
    IF pan_angle > hi THEN hi
    ELSE IF pan_angle < lo THEN lo
    ELSE pan_angle

\* The angle pan_vertical rotates by.  Comparisons with a not-a-number
\* current angle are false: the requested angle is used as it is.
PanVerticalAngle(direction, pan_angle) ==
    IF direction.nan THEN pan_angle
    ELSE ClampPan(pan_angle,
                  min_pan(current_angle(direction)),
                  max_pan(current_angle(direction)))

\* Matrix3::from_axis_angle(axis, angle) * direction for the axis to the
\* right of the direction: the elevation rises by angle along the meridian
\* of the heading; past the zenith or the nadir the direction comes down on
\* the opposite heading.
RotateAboutRightAxis(direction, axis, angle) ==
    IF direction.nan \/ axis.nan THEN NaNDirection
    ELSE LET t == ((direction.el + angle + 2 * FRAC_PI_2) % FullTurn)
                      - 2 * FRAC_PI_2
         IN  IF t > FRAC_PI_2
             THEN [direction EXCEPT !.az = (@ + 2 * FRAC_PI_2) % FullTurn,
                                    !.el = 2 * FRAC_PI_2 - t]
             ELSE IF t < 0 - FRAC_PI_2
             THEN [direction EXCEPT !.az = (@ + 2 * FRAC_PI_2) % FullTurn,
                                    !.el = (0 - 2 * FRAC_PI_2) - t]
             ELSE [direction EXCEPT !.el = t]

\* Camera::pan_vertical
pan_vertical(cam, pan_angle) ==
    LET axis == RightAxis(cam.direction)
        angle == PanVerticalAngle(cam.direction, pan_angle)
    IN  [cam EXCEPT !.direction = RotateAboutRightAxis(@, axis, angle)]

\* ----------------------------------------------------------- input manager
None == "None"

\* scancode::Scancode::new(hardware_scancode: u8): the key of a hardware code
ScancodeNew(code) ==
    CASE code = 1 -> "Escape"
      [] code = 17 -> "W"
      [] code = 29 -> "LeftControl"
      [] code = 30 -> "A"
      [] code = 31 -> "S"
      [] code = 32 -> "D"
      [] code = 57 -> "Space"
      [] OTHER -> None

LogicalKeys == {"MoveForward", "MoveBackward", "StrafeLeft", "StrafeRight",
                "MoveUp", "MoveDown"}

\* LogicalKey::from_scancode(scancode: u32); `scancode as u8` keeps the low
\* eight bits
from_scancode(scancode) ==
    LET key == ScancodeNew(scancode % 256)
    IN  CASE key = "W" -> "MoveForward"
          [] key = "A" -> "StrafeLeft"
          [] key = "S" -> "MoveBackward"
          [] key = "D" -> "StrafeRight"
          [] key = "Space" -> "MoveUp"
          [] key = "LeftControl" -> "MoveDown"
          [] OTHER -> None

\* InputManager::new
InputManagerNew == [key_states |-> EmptyMap, logical_events |-> <<>>]

\* self.key_states.entry(scancode).or_insert(KeyState::Up)
TrackedState(im, scancode) ==
    IF scancode \in DOMAIN im.key_states THEN im.key_states[scancode] ELSE "Up"

\* match ki.state { Pressed => KeyState::Down, Released => KeyState::Up }
NewState(state) == IF state = "Pressed" THEN "Down" ELSE "Up"

\* InputManager::handle_keyboard_input without the early return: every raw
\* event is passed on, whatever the tracked state
handle_keyboard_input_levels(im, ki) ==
    LET new_state == NewState(ki.state)
        logical_key == from_scancode(ki.scancode)
    IN  [key_states |-> Insert(im.key_states, ki.scancode, new_state),
         logical_events |->
             IF logical_key = None THEN im.logical_events
             ELSE Append(im.logical_events,
                         [kind |-> "Key", new_state |-> new_state,
                          logical_key |-> logical_key])]

\* InputManager::handle_keyboard_input
handle_keyboard_input(im, ki) ==
    LET tracked_state == TrackedState(im, ki.scancode)
        new_state == NewState(ki.state)
        logical_key == from_scancode(ki.scancode)
    IN  IF tracked_state = new_state
        THEN [im EXCEPT !.key_states = Insert(@, ki.scancode, tracked_state)]
        ELSE [key_states |-> Insert(im.key_states, ki.scancode, new_state),
              logical_events |->
                  IF logical_key = None THEN im.logical_events
                  ELSE Append(im.logical_events,
                              [kind |-> "Key", new_state |-> new_state,
                               logical_key |-> logical_key])]

\* InputManager::handle_device_event
handle_device_event(im, event) ==
    CASE event.kind = "MouseMotion" ->
             [im EXCEPT !.logical_events =
                 Append(@, [kind |-> "MouseMovement",
                            x |-> event.delta[1], y |-> event.delta[2]])]
      [] event.kind = "Key" -> handle_keyboard_input(im, event)
      [] OTHER -> im

\* InputManager::update: only Event::DeviceEvent is looked at
update(im, event) ==
    IF event.kind \in {"MouseMotion", "Key", "Button"}
    THEN handle_device_event(im, event)
    ELSE im

\* ------------------------------------------------------------- application
\* AppObject::rotate.  The orientation is a unit quaternion; the code only
\* ever multiplies a rotation about +X onto the identity and rotations about
\* +Z onto the result, so it is kept as the two half angles of
\* q = (rotation about Z) * (rotation about X).
rotate(object, angle, axis) ==
    LET half == angle \div 2
    IN  IF axis = <<0, 0, 1>>
        THEN [object EXCEPT !.angle.about_z = (@ + half) % FullTurn]
        ELSE [object EXCEPT !.angle.about_x = (@ + half) % FullTurn]

\* AppObject::model_matrix
model_matrix(object) ==
    [fn |-> "translation * rotation * scale", translation |-> object.pos,
     rotation |-> object.angle, scale |-> object.scale]

ZeroDeterminant == "Model-View matrix had a zero determinant"

\* AppObject::normal_matrix: the inverse of view * model, transposed; the
\* product is singular when the scale is zero
normal_matrix(object, view_matrix) ==
    [fn |-> "transpose(invert(view * model))", view |-> view_matrix,
     model |-> model_matrix(object), singular |-> object.scale.num = 0]

\* App::new leaving the object's scale at 0.0
AppNewZeroScale(model, ui_atlas) ==
    [input_manager |-> InputManagerNew,
     main_camera |-> [CameraDefault EXCEPT
                          !.location = <<2, 2, 0>>,
                          !.direction = normalize(<<-1, -1, 0>>)],
     camera_velocity |-> <<0, 0, 0>>,
     object |-> rotate([model |-> model,
                        scale |-> [num |-> 0, den |-> 1],
                        pos |-> <<0, 0, -1>>,
                        angle |-> [about_x |-> 0, about_z |-> 0]],
                       Deg(90), <<1, 0, 0>>),
     ui_atlas |-> ui_atlas]

\* App::new
AppNew(model, ui_atlas) ==
    [input_manager |-> InputManagerNew,
     main_camera |-> [CameraDefault EXCEPT
                          !.location = <<2, 2, 0>>,
                          !.direction = normalize(<<-1, -1, 0>>)],
     camera_velocity |-> <<0, 0, 0>>,
     object |-> rotate([model |-> model,
                        scale |-> [num |-> 2, den |-> 5],
                        pos |-> <<0, 0, -1>>,
                        angle |-> [about_x |-> 0, about_z |-> 0]],
                       Deg(90), <<1, 0, 0>>),
     ui_atlas |-> ui_atlas]

\* the base velocity of a logical key
BaseVel(key) ==
    CASE key = "MoveForward" -> <<0, 1, 0>>
      [] key = "StrafeLeft" -> <<-1, 0, 0>>
      [] key = "MoveBackward" -> <<0, -1, 0>>
      [] key = "StrafeRight" -> <<1, 0, 0>>
      [] key = "MoveUp" -> <<0, 0, 1>>
      [] key = "MoveDown" -> <<0, 0, -1>>

\* App::handle_key_event with a release stopping the camera
handle_key_event_release_stops(a, key, new_state) ==
    IF new_state = "Down"
    THEN [a EXCEPT !.camera_velocity =
             [i \in 1..3 |-> a.camera_velocity[i] + 10 * BaseVel(key)[i]]]
    ELSE [a EXCEPT !.camera_velocity = <<0, 0, 0>>]

\* App::handle_key_event
handle_key_event(a, key, new_state) ==
    LET multiplier == IF new_state = "Down" THEN 10 ELSE -10
        base_vel == BaseVel(key)
    IN  [a EXCEPT !.camera_velocity =
            [i \in 1..3 |-> a.camera_velocity[i] + multiplier * base_vel[i]]]

\* const MOUSE_SCALING: f32 = 1.0 / 1024.0;  Rad(pixels * MOUSE_SCALING)
MouseScaling(pixels) == (pixels * UnitsPerRad) \div 1024

\* App::handle_logical_event passing the vertical delta on without inverting it
handle_logical_event_uninverted(a, event) ==
    IF event.kind = "MouseMovement"
    THEN [a EXCEPT !.main_camera =
             pan_vertical(pan_horizonal(@, MouseScaling(event.x)),
                          MouseScaling(event.y))]
    ELSE handle_key_event(a, event.logical_key, event.new_state)

\* App::handle_logical_event
handle_logical_event(a, event) ==
    IF event.kind = "MouseMovement"
    THEN [a EXCEPT !.main_camera =
             pan_vertical(pan_horizonal(@, MouseScaling(event.x)),
                          MouseScaling(0 - event.y))]
    ELSE handle_key_event(a, event.logical_key, event.new_state)

\* while let Some(logical_event) = self.input_manager.poll_logical_event()
\*     { self.handle_logical_event(logical_event); }
RECURSIVE DrainLogicalEvents(_)
DrainLogicalEvents(a) ==
    IF a.input_manager.logical_events = <<>> THEN a
    ELSE DrainLogicalEvents(
             handle_logical_event(
                 [a EXCEPT !.input_manager.logical_events = Tail(@)],
                 Head(a.input_manager.logical_events)))

\* The body of App::handle_event
HandleEventRun(a, event) ==
    DrainLogicalEvents([a EXCEPT !.input_manager = update(@, event)])

\* The body of App::generate_frame_packet also advancing the object's spin
GenerateFramePacketRunSpinning(a, aspect_ratio) ==
    LET view_matrix == view(a.main_camera)
        normal == normal_matrix(a.object, view_matrix)
    IN  [app |-> [a EXCEPT !.object = rotate(@, Deg(100), <<0, 0, 1>>)],
         panic |-> IF normal.singular THEN ZeroDeterminant ELSE NoPanic,
         packet |->
            [view |-> view_matrix,
             proj |-> proj(a.main_camera, aspect_ratio),
             models |-> <<[model_id |-> a.object.model,
                           instances |-> <<[model_matrix |-> model_matrix(a.object),
                                            normal_matrix |-> normal]>>]>>,
             overlay_sprites |->
                 <<[atlas_id |-> a.ui_atlas,
                    sprites |-> <<[screen_pos |-> <<"0.09", "0.16">>,
                                   screen_size |-> <<"-0.09", "-0.16">>,
                                   atlas_pos |-> <<"0.0", "0.0">>,
                                   atlas_size |-> <<"1.0", "1.0">>]>>]>>]]

\* The body of App::generate_frame_packet naming ModelId(0) in the packet
GenerateFramePacketRunFirstModel(a, aspect_ratio) ==
    LET view_matrix == view(a.main_camera)
        normal == normal_matrix(a.object, view_matrix)
    IN  [app |-> a,
         panic |-> IF normal.singular THEN ZeroDeterminant ELSE NoPanic,
         packet |->
            [view |-> view_matrix,
             proj |-> proj(a.main_camera, aspect_ratio),
             models |-> <<[model_id |-> 0,
                           instances |-> <<[model_matrix |-> model_matrix(a.object),
                                            normal_matrix |-> normal]>>]>>,
             overlay_sprites |->
                 <<[atlas_id |-> a.ui_atlas,
                    sprites |-> <<[screen_pos |-> <<"0.09", "0.16">>,
                                   screen_size |-> <<"-0.09", "-0.16">>,
                                   atlas_pos |-> <<"0.0", "0.0">>,
                                   atlas_size |-> <<"1.0", "1.0">>]>>]>>]]

\* The body of App::generate_frame_packet(&self, aspect_ratio): the App as
\* the call leaves it, the packet returned, and the panic of normal_matrix.
GenerateFramePacketRun(a, aspect_ratio) ==
    LET view_matrix == view(a.main_camera)
        normal == normal_matrix(a.object, view_matrix)
    IN  [app |-> a,
         panic |-> IF normal.singular THEN ZeroDeterminant ELSE NoPanic,
         packet |->
            [view |-> view_matrix,
             proj |-> proj(a.main_camera, aspect_ratio),
             models |-> <<[model_id |-> a.object.model,
                           instances |-> <<[model_matrix |-> model_matrix(a.object),
                                            normal_matrix |-> normal]>>]>>,
             overlay_sprites |->
                 <<[atlas_id |-> a.ui_atlas,
                    sprites |-> <<[screen_pos |-> <<"0.09", "0.16">>,
                                   screen_size |-> <<"-0.09", "-0.16">>,
                                   atlas_pos |-> <<"0.0", "0.0">>,
                                   atlas_size |-> <<"1.0", "1.0">>]>>]>>]]

\* Deg(100.0) * dt, for a Duration of dt milliseconds (dt.as_secs_f32())
SpinAngle(dt) == (Deg(100) * dt) \div 1000

\* App::world_camera_vel: strafe + forward + up.  The components of a unit
\* vector at a general heading are not whole numbers, so the sum is kept as
\* its three terms, each a unit vector and the speed along it.
world_camera_vel(a) ==
    [strafe |-> [dir |-> RightAxis(a.main_camera.direction),
                 speed |-> a.camera_velocity[1]],
     forward |-> [dir |-> a.main_camera.direction,
                  speed |-> a.camera_velocity[2]],
     up |-> [dir |-> normalize(<<0, 0, 1>>),
             speed |-> a.camera_velocity[3]]]

\* every component of the vector is 0.0
IsZeroVector(v) ==
    /\ v.strafe.speed = 0 /\ ~v.strafe.dir.nan
    /\ v.forward.speed = 0 /\ ~v.forward.dir.nan
    /\ v.up.speed = 0

\* location += v * dt.  A point is kept as the coordinates it was built with
\* followed by the displacements added to it since, in order.
Advance(location, v, dt) ==
    IF IsZeroVector(v) \/ dt = 0 THEN location
    ELSE Append(location, [vel |-> v, dt |-> dt])

\* App::tick consuming the velocity it has integrated
TickRunStopping(a, dt) ==
    LET spun == [a EXCEPT !.object = rotate(@, SpinAngle(dt), <<0, 0, 1>>)]
    IN  [spun EXCEPT !.main_camera.location =
                         Advance(@, world_camera_vel(spun), dt),
                     !.camera_velocity = <<0, 0, 0>>]

\* The body of App::tick, dt in milliseconds
TickRun(a, dt) ==
    LET spun == [a EXCEPT !.object = rotate(@, SpinAngle(dt), <<0, 0, 1>>)]
    IN  [spun EXCEPT !.main_camera.location =
                         Advance(@, world_camera_vel(spun), dt)]

\* ------------------------------------------------------------ GPU commands
UploadModelLabel == "Texture upload commands"
UploadAtlasLabel == "Texture atlas upload commands"
FrameLabel == "Per frame encoder"
Labels == {UploadModelLabel, UploadAtlasLabel, FrameLabel}

\* queue.submit(&[encoder.finish()]) of the encoder created with this label
Submit(q, label) == [q EXCEPT ![label] = @ + 1]

\* device.create_texture: a texture object distinct from all earlier ones
TextureSites == {"GpuModel::from_data", "GpuAtlas::new"}
CreateTexture(site) == [site |-> site, n |-> device_textures[site]]

\* encoder.copy_buffer_to_texture(texture_buff, texture, extent)
CopyBufferToTexture(image, texture) ==
    [op |-> "copy_buffer_to_texture", stage |-> "upload",
     image |-> image, texture |-> texture]

\* GpuModel::from_data: the record kept in Renderer.models
GpuModel(data, texture) ==
    [index_count |-> data.indices_len, base_color_texture |-> texture]

\* GpuAtlas::new: the record kept in Renderer.atlases
GpuAtlas(texture) == [texture |-> texture, view |-> texture]

\* ForwardRenderStage::add_model: the bind group cached for a model
ForwardBindGroup(model) ==
    [label |-> "diffuse_bind_group", texture |-> model.base_color_texture]

\* ForwardRenderStage::add_model with the bind group never cached
add_model_uncached(texture_bind_groups, model_id, model) == texture_bind_groups

\* ForwardRenderStage::add_model
add_model(texture_bind_groups, model_id, model) ==
    Insert(texture_bind_groups, model_id, ForwardBindGroup(model))

\* SpriteOverlayRenderStage::add_atlas: the bind group cached for an atlas
SpriteBindGroup(atlas) ==
    [label |-> "Texture atlas bind group", texture |-> atlas.view]

\* SpriteOverlayRenderStage::add_atlas
add_atlas(texture_bind_groups, atlas_id, atlas) ==
    Insert(texture_bind_groups, atlas_id, SpriteBindGroup(atlas))

\* Before main() has done anything: no tick yet, the App built with the
\* first handle of each kind, main() at its first statement, no thread
\* spawned.
HostNew ==
    /\ ticks = 0
    /\ app_args = [model |-> 0, ui_atlas |-> 0]
    /\ main_thread = [pc |-> "main", control_flow |-> "Poll", event |-> "None"]
    /\ draw_thread = "none"

\* ---------------------------------------------------------------- registry
\* Renderer::new
RendererNew ==
    /\ next_model_id = 0
    /\ models = EmptyMap
    /\ next_atlas_id = 0
    /\ atlases = EmptyMap
    /\ forward_tbg = EmptyMap
    /\ sprite_tbg = EmptyMap
    /\ device_textures = [site \in TextureSites |-> 0]
    /\ encoder = <<>>
    /\ queue = [label \in Labels |-> 0]
    /\ submitted = <<>>
    /\ last_call = [op |-> "new"]
    /\ trace = <<>>
    /\ draw_calls = 0
    /\ issued_models = <<>>
    /\ issued_atlases = <<>>
    /\ panicked = NoPanic

\* Renderer::new, then App::new with the first handle of each kind
Init ==
    /\ RendererNew
    /\ app = AppNew(0, 0)
    /\ camera = CameraDefault
    /\ HostNew

\* self.next_model_id = ModelId(self.next_model_id.0 + 1), increment left out
NextModelIdStuck(id) == id

\* self.next_model_id = ModelId(self.next_model_id.0 + 1)
NextModelId(id) == id + 1

\* self.next_atlas_id = AtlasId(self.next_atlas_id.0 + 1)
NextAtlasId(id) == id + 1

\* Renderer::upload_model
upload_model(data) ==
    /\ panicked = NoPanic
    /\ Len(issued_models) < MaxModels
    /\ LET texture == CreateTexture("GpuModel::from_data")
           new_gpu_model == GpuModel(data, texture)
           new_model_id == next_model_id
           upload == <<CopyBufferToTexture(data.texture, texture)>>
       IN  /\ device_textures' = [device_textures EXCEPT ![texture.site] = @ + 1]
           /\ encoder' = upload
           /\ queue' = Submit(queue, UploadModelLabel)
           /\ submitted' = upload
           /\ forward_tbg' = add_model(forward_tbg, new_model_id, new_gpu_model)
           /\ models' = Insert(models, new_model_id, new_gpu_model)
           /\ next_model_id' = NextModelId(next_model_id)
           /\ issued_models' = Append(issued_models, new_model_id)
           /\ last_call' = [op |-> "upload_model", arg |-> data, ret |-> new_model_id]
    /\ UNCHANGED <<next_atlas_id, atlases, sprite_tbg, trace, draw_calls,
                   issued_atlases, panicked, application, host>>

\* Renderer::upload_atlas drawing its ids from the model counter
upload_atlas_shared_counter(data) ==
    /\ panicked = NoPanic
    /\ Len(issued_atlases) < MaxAtlases
    /\ LET texture == CreateTexture("GpuAtlas::new")
           new_gpu_atlas == GpuAtlas(texture)
           new_atlas_id == next_model_id
           upload == <<CopyBufferToTexture(data, texture)>>
       IN  /\ device_textures' = [device_textures EXCEPT ![texture.site] = @ + 1]
           /\ encoder' = upload
           /\ queue' = Submit(queue, UploadAtlasLabel)
           /\ submitted' = upload
           /\ sprite_tbg' = add_atlas(sprite_tbg, new_atlas_id, new_gpu_atlas)
           /\ atlases' = Insert(atlases, new_atlas_id, new_gpu_atlas)
           /\ next_model_id' = NextModelId(next_model_id)
           /\ issued_atlases' = Append(issued_atlases, new_atlas_id)
           /\ last_call' = [op |-> "upload_atlas", arg |-> data, ret |-> new_atlas_id]
    /\ UNCHANGED <<next_atlas_id, models, forward_tbg, trace, draw_calls,
                   issued_models, panicked, application, host>>

\* Renderer::upload_atlas
upload_atlas(data) ==
    /\ panicked = NoPanic
    /\ Len(issued_atlases) < MaxAtlases
    /\ LET texture == CreateTexture("GpuAtlas::new")
           new_gpu_atlas == GpuAtlas(texture)
           new_atlas_id == next_atlas_id
           upload == <<CopyBufferToTexture(data, texture)>>
       IN  /\ device_textures' = [device_textures EXCEPT ![texture.site] = @ + 1]
           /\ encoder' = upload
           /\ queue' = Submit(queue, UploadAtlasLabel)
           /\ submitted' = upload
           /\ sprite_tbg' = add_atlas(sprite_tbg, new_atlas_id, new_gpu_atlas)
           /\ atlases' = Insert(atlases, new_atlas_id, new_gpu_atlas)
           /\ next_atlas_id' = NextAtlasId(next_atlas_id)
           /\ issued_atlases' = Append(issued_atlases, new_atlas_id)
           /\ last_call' = [op |-> "upload_atlas", arg |-> data, ret |-> new_atlas_id]
    /\ UNCHANGED <<next_model_id, models, forward_tbg, trace, draw_calls,
                   issued_models, panicked, application, host>>

\* ----------------------------------------------------------- render stages
UnknownModel == "Frame packet references model with unknown id"
NoTextureInfo == "Frame packet references model with no texture information"
UnknownAtlas == "Frame packet references sprite atlas with unknown id"
AcquireFailed == "Failed to get next swapchain frame"

\* encoder.copy_buffer_to_buffer(uniform_staging, uniform_buff)
CopyUniform(packet) ==
    [op |-> "copy_buffer_to_buffer", stage |-> "forward",
     view |-> packet.view, proj |-> packet.proj]

\* ForwardRenderStage::draw_frame, loop body: one render pass per model group
ForwardPass(model, model_data, texture_bind_group) ==
    [op |-> "render_pass", stage |-> "forward",
     color_load_op |-> "Clear", depth_load_op |-> "Clear",
     bind_group |-> texture_bind_group,
     draw |-> "draw_indexed", count |-> model_data.index_count,
     instances |-> model.instances]

\* SpriteOverlayRenderStage::draw_frame, loop body: one pass per sprite set
SpritePass(sprite_set, bind_group) ==
    [op |-> "render_pass", stage |-> "sprite",
     color_load_op |-> "Load", depth_load_op |-> "None",
     bind_group |-> bind_group,
     draw |-> "draw", count |-> 4,
     instances |-> sprite_set.sprites]

\* The loop of ForwardRenderStage::draw_frame with `if let Some` lookups: a
\* group whose id is unknown is skipped.
RECURSIVE ForwardLoopSkipping(_, _, _, _, _)
ForwardLoopSkipping(groups, i, cmds, reg_models, reg_tbg) ==
    IF i > Len(groups) THEN [cmds |-> cmds, panic |-> NoPanic]
    ELSE IF \/ groups[i].model_id \notin DOMAIN reg_models
            \/ groups[i].model_id \notin DOMAIN reg_tbg
         THEN ForwardLoopSkipping(groups, i + 1, cmds, reg_models, reg_tbg)
    ELSE ForwardLoopSkipping(groups, i + 1,
                     Append(cmds, ForwardPass(groups[i],
                                              reg_models[groups[i].model_id],
                                              reg_tbg[groups[i].model_id])),
                     reg_models, reg_tbg)

\* The loop of ForwardRenderStage::draw_frame leaving out the groups whose
\* instance list is empty.
RECURSIVE ForwardLoopSkippingEmpty(_, _, _, _, _)
ForwardLoopSkippingEmpty(groups, i, cmds, reg_models, reg_tbg) ==
    IF i > Len(groups) THEN [cmds |-> cmds, panic |-> NoPanic]
    ELSE IF groups[i].model_id \notin DOMAIN reg_models
         THEN [cmds |-> cmds, panic |-> UnknownModel]
    ELSE IF groups[i].model_id \notin DOMAIN reg_tbg
         THEN [cmds |-> cmds, panic |-> NoTextureInfo]
    ELSE IF groups[i].instances = 0
         THEN ForwardLoopSkippingEmpty(groups, i + 1, cmds, reg_models, reg_tbg)
    ELSE ForwardLoopSkippingEmpty(groups, i + 1,
                     Append(cmds, ForwardPass(groups[i],
                                              reg_models[groups[i].model_id],
                                              reg_tbg[groups[i].model_id])),
                     reg_models, reg_tbg)

\* The for loop of ForwardRenderStage::draw_frame from group i on: the
\* commands recorded so far and the panic that stopped the loop, if any.
RECURSIVE ForwardLoop(_, _, _, _, _)
ForwardLoop(groups, i, cmds, reg_models, reg_tbg) ==
    IF i > Len(groups) THEN [cmds |-> cmds, panic |-> NoPanic]
    ELSE IF groups[i].model_id \notin DOMAIN reg_models
         THEN [cmds |-> cmds, panic |-> UnknownModel]
    ELSE IF groups[i].model_id \notin DOMAIN reg_tbg
         THEN [cmds |-> cmds, panic |-> NoTextureInfo]
    ELSE ForwardLoop(groups, i + 1,
                     Append(cmds, ForwardPass(groups[i],
                                              reg_models[groups[i].model_id],
                                              reg_tbg[groups[i].model_id])),
                     reg_models, reg_tbg)

\* ForwardRenderStage::draw_frame recording the uniform copy after the loop
ForwardDrawFrameCopyLast(packet, cmds, reg_models, reg_tbg) ==
    LET r == ForwardLoop(packet.models, 1, cmds, reg_models, reg_tbg)
    IN  IF r.panic # NoPanic THEN r
        ELSE [r EXCEPT !.cmds = Append(@, CopyUniform(packet))]

\* ForwardRenderStage::draw_frame
ForwardDrawFrame(packet, cmds, reg_models, reg_tbg) ==
    ForwardLoop(packet.models, 1, Append(cmds, CopyUniform(packet)),
                reg_models, reg_tbg)

\* The loop of SpriteOverlayRenderStage::draw_frame checking only the first
\* sprite set's atlas id.
RECURSIVE SpriteLoopFirstOnly(_, _, _, _)
SpriteLoopFirstOnly(groups, i, cmds, reg_tbg) ==
    IF i > Len(groups) THEN [cmds |-> cmds, panic |-> NoPanic]
    ELSE IF groups[i].atlas_id \notin DOMAIN reg_tbg
         THEN IF i = 1 THEN [cmds |-> cmds, panic |-> UnknownAtlas]
              ELSE SpriteLoopFirstOnly(groups, i + 1, cmds, reg_tbg)
    ELSE SpriteLoopFirstOnly(groups, i + 1,
                    Append(cmds, SpritePass(groups[i], reg_tbg[groups[i].atlas_id])),
                    reg_tbg)

\* The for loop of SpriteOverlayRenderStage::draw_frame from group i on.
RECURSIVE SpriteLoop(_, _, _, _)
SpriteLoop(groups, i, cmds, reg_tbg) ==
    IF i > Len(groups) THEN [cmds |-> cmds, panic |-> NoPanic]
    ELSE IF groups[i].atlas_id \notin DOMAIN reg_tbg
         THEN [cmds |-> cmds, panic |-> UnknownAtlas]
    ELSE SpriteLoop(groups, i + 1,
                    Append(cmds, SpritePass(groups[i], reg_tbg[groups[i].atlas_id])),
                    reg_tbg)

\* SpriteOverlayRenderStage::draw_frame
SpriteDrawFrame(packet, cmds, reg_tbg) ==
    SpriteLoop(packet.overlay_sprites, 1, cmds, reg_tbg)

\* ---------------------------------------------------- render target contents
\* What an attachment holds while a command buffer executes: `stale` as long
\* as no pass of this command buffer has cleared it (it holds what was there
\* before the frame), and the positions of the passes whose draw output it
\* holds.
StaleTarget == [stale |-> TRUE, outputs |-> {}]

\* A render pass at position i of the command buffer with the given load_op
\* on the attachment and StoreOp::Store: Clear discards what the attachment
\* held, Load keeps it; the pass's draw output is stored on top.
Attach(target, load_op, i) ==
    IF load_op = "Clear" THEN [stale |-> FALSE, outputs |-> {i}]
    ELSE IF load_op = "Load" THEN [target EXCEPT !.outputs = @ \cup {i}]
    ELSE target

\* color_output after the first n commands of the command buffer
RECURSIVE ColorTarget(_, _)
ColorTarget(cmds, n) ==
    IF n = 0 THEN StaleTarget
    ELSE IF cmds[n].op # "render_pass" THEN ColorTarget(cmds, n - 1)
    ELSE Attach(ColorTarget(cmds, n - 1), cmds[n].color_load_op, n)

\* depth_output after the first n commands of the command buffer
RECURSIVE DepthTarget(_, _)
DepthTarget(cmds, n) ==
    IF n = 0 THEN StaleTarget
    ELSE IF cmds[n].op # "render_pass" THEN DepthTarget(cmds, n - 1)
    ELSE Attach(DepthTarget(cmds, n - 1), cmds[n].depth_load_op, n)

\* The forward stage's uniform buffer as the command at position n reads it:
\* what the latest copy_buffer_to_buffer before n wrote, "stale" if the
\* command buffer has none before n.
RECURSIVE UniformBuff(_, _)
UniformBuff(cmds, n) ==
    IF n <= 1 THEN "stale"
    ELSE IF cmds[n - 1].op = "copy_buffer_to_buffer"
         THEN [view |-> cmds[n - 1].view, proj |-> cmds[n - 1].proj]
    ELSE UniformBuff(cmds, n - 1)

\* ------------------------------------------------------ Renderer::draw_frame
\* A run of draw_frame is the record of what the call has done so far: the
\* calls made, the commands recorded into the per-frame encoder, whether the
\* encoder exists, how many command buffers were submitted, and the panic
\* that ended the call (a panic unwinds: no later statement runs).

\* get_next_texture retried until it succeeds
AcquireRetrying(acquire) ==
    [trace |-> IF acquire = "Ok" THEN <<"get_next_texture">>
               ELSE <<"get_next_texture", "get_next_texture">>,
     cmds |-> <<>>, created |-> FALSE, submits |-> 0, panic |-> NoPanic]

\* match self.swapchain.get_next_texture() { Ok(frame) => frame, Err(e) => panic! }
Acquire(acquire) ==
    [trace |-> <<"get_next_texture">>, cmds |-> <<>>, created |-> FALSE,
     submits |-> 0,
     panic |-> IF acquire = "Ok" THEN NoPanic ELSE AcquireFailed]

\* self.device.create_command_encoder(..)
CreateEncoder(run) ==
    IF run.panic # NoPanic THEN run
    ELSE [run EXCEPT !.trace = Append(@, "create_command_encoder"),
                     !.created = TRUE]

\* self.forward_render_stage.draw_frame(self, frame_packet, &mut encoder, ..)
ForwardStage(run, packet, reg_models, reg_ftbg) ==
    IF run.panic # NoPanic THEN run
    ELSE LET r == ForwardDrawFrame(packet, run.cmds, reg_models, reg_ftbg)
         IN  [run EXCEPT !.trace = Append(@, "forward_render_stage"),
                         !.cmds = r.cmds, !.panic = r.panic]

\* self.sprite_overlay_render_stage.draw_frame(self, frame_packet, &mut encoder, ..)
SpriteStage(run, packet, reg_stbg) ==
    IF run.panic # NoPanic THEN run
    ELSE LET r == SpriteDrawFrame(packet, run.cmds, reg_stbg)
         IN  [run EXCEPT !.trace = Append(@, "sprite_overlay_render_stage"),
                         !.cmds = r.cmds, !.panic = r.panic]

\* the frame's queue.submit left out
SubmitFrameForgotten(run) == run

\* self.queue.submit(&[encoder.finish()])
SubmitFrame(run) ==
    IF run.panic # NoPanic THEN run
    ELSE [run EXCEPT !.trace = Append(@, "submit"), !.submits = @ + 1]

\* Renderer::draw_frame with the two stage calls in the other order
DrawFrameRunOverlayFirst(packet, acquire, reg_models, reg_ftbg, reg_stbg) ==
    SubmitFrame(
        ForwardStage(
            SpriteStage(CreateEncoder(Acquire(acquire)), packet, reg_stbg),
            packet, reg_models, reg_ftbg))

\* Renderer::draw_frame submitting the forward work before the overlay stage
DrawFrameRunEarlySubmit(packet, acquire, reg_models, reg_ftbg, reg_stbg) ==
    SpriteStage(
        SubmitFrame(
            ForwardStage(CreateEncoder(Acquire(acquire)), packet,
                         reg_models, reg_ftbg)),
        packet, reg_stbg)

\* The body of Renderer::draw_frame, statement by statement.
DrawFrameRun(packet, acquire, reg_models, reg_ftbg, reg_stbg) ==
    SubmitFrame(
        SpriteStage(
            ForwardStage(CreateEncoder(Acquire(acquire)), packet,
                         reg_models, reg_ftbg),
            packet, reg_stbg))

\* Renderer::draw_frame
draw_frame(packet, acquire) ==
    /\ panicked = NoPanic
    /\ draw_calls < MaxFrames
    /\ LET run == DrawFrameRun(packet, acquire, models, forward_tbg, sprite_tbg)
       IN  /\ trace' = run.trace
           /\ encoder' = IF run.created THEN run.cmds ELSE encoder
           /\ queue' = [queue EXCEPT ![FrameLabel] = @ + run.submits]
           /\ submitted' = IF run.submits > 0 THEN run.cmds ELSE submitted
           /\ panicked' = run.panic
           /\ last_call' = [op |-> "draw_frame", arg |-> packet,
                            acquire |-> acquire,
                            ret |-> IF run.panic = NoPanic THEN "ok" ELSE "panic"]
    /\ draw_calls' = draw_calls + 1
    /\ UNCHANGED <<registry, issued_models, issued_atlases, application, host>>

UploadModel == \E data \in ModelData : upload_model(data)
UploadAtlas == \E data \in Images : upload_atlas(data)
DrawFrame == \E packet \in FramePacket, acquire \in AcquireResults :
                 draw_frame(packet, acquire)

Next == UploadModel \/ UploadAtlas \/ DrawFrame

Spec == Init /\ [][Next]_vars

\* ---------------------------------------------------- application operations
\* winit events handed to App::handle_event
Scancodes == {17, 30, 31, 32, 57, 29, 1, 273}
ElementStates == {"Pressed", "Released"}
KeyboardInputs(scancodes) ==
    [kind : {"Key"}, scancode : scancodes, state : ElementStates]
MouseDeltas == {<<x, y>> : x \in {-40212, 0, 40212}, y \in {-804, 0, 804}}
MouseMotions == [kind : {"MouseMotion"}, delta : MouseDeltas]
OtherEvents == [kind : {"Button", "RedrawRequested"}]
AspectRatios == {"4:3", "16:9"}
PanAngles ==
    {Deg(d) : d \in {-3600, -360, -90, -45, -30, 0, 30, 45, 90, 360, 3600}}

\* App::handle_event
handle_event(event) ==
    /\ panicked = NoPanic
    /\ app' = HandleEventRun(app, event)
    /\ last_call' = [op |-> "handle_event", arg |-> event, before |-> app,
                     ret |-> update(app.input_manager, event).logical_events]
    /\ UNCHANGED <<registry, gpu, trace, draw_calls, issued_models,
                   issued_atlases, panicked, camera,
                   host>>

\* App::generate_frame_packet.  prev: the packet of the call before, when
\* that call was generate_frame_packet with the same aspect ratio.
generate_frame_packet(aspect_ratio) ==
    /\ panicked = NoPanic
    /\ LET run == GenerateFramePacketRun(app, aspect_ratio)
       IN  /\ app' = run.app
           /\ panicked' = run.panic
           /\ last_call' =
                 [op |-> "generate_frame_packet", arg |-> aspect_ratio,
                  before |-> app, ret |-> run.packet,
                  prev |-> IF /\ last_call.op = "generate_frame_packet"
                              /\ last_call.arg = aspect_ratio
                           THEN <<last_call.ret>> ELSE <<>>]
    /\ UNCHANGED <<registry, gpu, trace, draw_calls, issued_models,
                   issued_atlases, camera,
                   host>>

\* camera.pan_horizonal(angle), called on the camera directly
camera_pan_horizonal(angle) ==
    /\ panicked = NoPanic
    /\ camera' = pan_horizonal(camera, angle)
    /\ last_call' = [op |-> "pan_horizonal", arg |-> angle, before |-> camera]
    /\ UNCHANGED <<registry, gpu, trace, draw_calls, issued_models,
                   issued_atlases, panicked, app,
                   host>>

\* camera.pan_vertical(angle), called on the camera directly
camera_pan_vertical(angle) ==
    /\ panicked = NoPanic
    /\ camera' = pan_vertical(camera, angle)
    /\ last_call' = [op |-> "pan_vertical", arg |-> angle, before |-> camera,
                     applied |-> PanVerticalAngle(camera.direction, angle)]
    /\ UNCHANGED <<registry, gpu, trace, draw_calls, issued_models,
                   issued_atlases, panicked, app,
                   host>>

\* App::tick
tick(dt) ==
    /\ panicked = NoPanic
    /\ ticks < MaxTicks
    /\ app' = TickRun(app, dt)
    /\ ticks' = ticks + 1
    /\ last_call' = [op |-> "tick", arg |-> dt, before |-> app]
    /\ UNCHANGED <<registry, gpu, trace, draw_calls, issued_models,
                   issued_atlases, panicked, camera, app_args, main_thread,
                   draw_thread>>

\* Keyboard: every raw key event of the explored scancodes, and events the
\* input manager ignores.
KeyboardInput == \E event \in KeyboardInputs(Scancodes) : handle_event(event)
IgnoredEvent == \E event \in OtherEvents : handle_event(event)
NextKeys == KeyboardInput \/ IgnoredEvent
SpecKeys == Init /\ [][NextKeys]_vars

\* Camera: a default camera, or the camera App::new builds, panned by direct
\* calls.
InitCamera ==
    /\ RendererNew
    /\ app = AppNew(0, 0)
    /\ camera \in {CameraDefault, AppNew(0, 0).main_camera}
    /\ HostNew
PanHorizontal == \E angle \in PanAngles : camera_pan_horizonal(angle)
PanVertical == \E angle \in PanAngles : camera_pan_vertical(angle)
NextCamera == PanHorizontal \/ PanVertical
SpecCamera == InitCamera /\ [][NextCamera]_vars

\* Application: two keys, mouse motion and packet generation.
AppKeyboardInput == \E event \in KeyboardInputs({17, 29}) : handle_event(event)
MouseMotion == \E event \in MouseMotions : handle_event(event)
GenerateFramePacket == \E aspect_ratio \in AspectRatios :
                           generate_frame_packet(aspect_ratio)
NextApp == AppKeyboardInput \/ MouseMotion \/ GenerateFramePacket
SpecApp == Init /\ [][NextApp]_vars

\* Simulation: two keys, the mouse moving up, ticks of a frame's length and
\* of 0.9 s, and packet generation.
TickDurations == {16, 900}
TickKeyboardInput == \E event \in KeyboardInputs({17, 30}) : handle_event(event)
TickMouseMotion ==
    handle_event([kind |-> "MouseMotion", delta |-> <<0, -804>>])
Tick == \E dt \in TickDurations : tick(dt)
TickGenerateFramePacket == generate_frame_packet("16:9")
NextTick ==
    TickKeyboardInput \/ TickMouseMotion \/ Tick \/ TickGenerateFramePacket
SpecTick == Init /\ [][NextTick]_vars

\* ------------------------------------------------------------ main.rs
\* main.rs carries its own renderer: models without a texture, a packet with
\* one view_proj matrix, and one render stage that writes color only.

\* ModelData::new_cube()
NewCube == [vertices_len |-> 8, indices_len |-> 36]

\* GpuModel::from_data
MainGpuModel(data) == [index_count |-> data.indices_len]

\* let static_frame_packet = FramePacket { view_proj, models: vec![..] },
\* cube_id being what load_model returned
StaticFramePacket ==
    [view_proj |-> "viewproj(aspect_ratio)",
     models |-> <<[model_id |-> issued_models[1], instances |-> 2]>>]

\* RenderStage::draw_frame: the uniform copy
MainCopyUniform(packet) ==
    [op |-> "copy_buffer_to_buffer", stage |-> "render",
     view_proj |-> packet.view_proj]

\* RenderStage::draw_frame, loop body: one render pass per model group
MainRenderPass(model, model_data) ==
    [op |-> "render_pass", stage |-> "render",
     color_load_op |-> "Clear", depth_load_op |-> "None",
     draw |-> "draw_indexed", count |-> model_data.index_count,
     instances |-> model.instances]

\* The for loop of RenderStage::draw_frame from group i on.
RECURSIVE MainRenderLoop(_, _, _, _)
MainRenderLoop(groups, i, cmds, reg_models) ==
    IF i > Len(groups) THEN [cmds |-> cmds, panic |-> NoPanic]
    ELSE IF groups[i].model_id \notin DOMAIN reg_models
         THEN [cmds |-> cmds, panic |-> UnknownModel]
    ELSE MainRenderLoop(groups, i + 1,
                        Append(cmds, MainRenderPass(groups[i],
                                                    reg_models[groups[i].model_id])),
                        reg_models)

\* self.render_stage.draw_frame(self, frame_packet, &mut encoder, &frame.view)
MainRenderStage(run, packet, reg_models) ==
    IF run.panic # NoPanic THEN run
    ELSE LET r == MainRenderLoop(packet.models, 1,
                                 Append(run.cmds, MainCopyUniform(packet)),
                                 reg_models)
         IN  [run EXCEPT !.trace = Append(@, "render_stage"),
                         !.cmds = r.cmds, !.panic = r.panic]

\* The body of main.rs's Renderer::draw_frame
MainDrawFrameRun(packet, acquire, reg_models) ==
    SubmitFrame(MainRenderStage(CreateEncoder(Acquire(acquire)), packet,
                                reg_models))

\* winit events handed to the closure of event_loop.run
MainEvents ==
    {"CloseRequested", "Resized", "DeviceEvent", "MainEventsCleared",
     "RedrawRequested", "RedrawEventsCleared"}

\* main(): Renderer::new(&window).await, renderer.load_model(new_cube()),
\* and the static frame packet
main_load_model ==
    /\ main_thread.pc = "main"
    /\ LET new_gpu_model == MainGpuModel(NewCube)
           new_model_id == next_model_id
       IN  /\ models' = Insert(models, new_model_id, new_gpu_model)
           /\ next_model_id' = NextModelId(next_model_id)
           /\ issued_models' = Append(issued_models, new_model_id)
           /\ last_call' = [op |-> "load_model", thread |-> "main",
                            ret |-> new_model_id]
    /\ main_thread' = [main_thread EXCEPT !.pc = "spawn"]
    /\ UNCHANGED <<next_atlas_id, atlases, forward_tbg, sprite_tbg,
                   device_textures, gpu, trace, draw_calls, issued_atlases,
                   panicked, application, ticks, app_args, draw_thread>>

\* std::thread::spawn(move || loop { .. }): the renderer and the packet move
\* into the new thread; main() goes on to event_loop.run
main_spawn ==
    /\ main_thread.pc = "spawn"
    /\ main_thread' = [main_thread EXCEPT !.pc = "event_loop"]
    /\ draw_thread' = "loop"
    /\ UNCHANGED <<registry, gpu, history, panicked, application, ticks,
                   app_args>>

\* the spawned thread calls renderer.draw_frame(&static_frame_packet)
draw_thread_call ==
    /\ draw_thread = "loop"
    /\ draw_calls < MaxFrames
    /\ draw_thread' = "draw_frame"
    /\ UNCHANGED <<registry, gpu, history, panicked, application, ticks,
                   app_args, main_thread>>

\* renderer.draw_frame runs and returns, or panics and ends the spawned
\* thread; the thread running the event loop goes on
draw_thread_return(acquire) ==
    /\ draw_thread = "draw_frame"
    /\ LET run == MainDrawFrameRun(StaticFramePacket, acquire, models)
       IN  /\ trace' = run.trace
           /\ encoder' = IF run.created THEN run.cmds ELSE encoder
           /\ queue' = [queue EXCEPT ![FrameLabel] = @ + run.submits]
           /\ submitted' = IF run.submits > 0 THEN run.cmds ELSE submitted
           /\ panicked' = run.panic
           /\ last_call' = [op |-> "draw_frame", thread |-> "spawned",
                            arg |-> StaticFramePacket, acquire |-> acquire,
                            ret |-> IF run.panic = NoPanic THEN "ok" ELSE "panic"]
           /\ draw_thread' = IF run.panic = NoPanic THEN "sleep" ELSE "panicked"
    /\ draw_calls' = draw_calls + 1
    /\ UNCHANGED <<registry, issued_models, issued_atlases, application,
                   ticks, app_args, main_thread>>

\* std::thread::sleep(Duration::from_millis(10)) returns
draw_thread_wake ==
    /\ draw_thread = "sleep"
    /\ draw_thread' = "loop"
    /\ UNCHANGED <<registry, gpu, history, panicked, application, ticks,
                   app_args, main_thread>>

\* event_loop.run hands an event to the closure
event_dispatch(event) ==
    /\ main_thread.pc = "event_loop"
    /\ main_thread.control_flow # "Exit"
    /\ main_thread' = [main_thread EXCEPT !.pc = "handler", !.event = event]
    /\ UNCHANGED <<registry, gpu, history, panicked, application, ticks,
                   app_args, draw_thread>>

\* the closure: *control_flow = ControlFlow::Wait; match event {
\*     CloseRequested => *control_flow = ControlFlow::Exit, _ => () }
event_return ==
    /\ main_thread.pc = "handler"
    /\ main_thread' =
          [pc |-> "event_loop", event |-> "None",
           control_flow |-> IF main_thread.event = "CloseRequested"
                            THEN "Exit" ELSE "Wait"]
    /\ UNCHANGED <<registry, gpu, history, panicked, application, ticks,
                   app_args, draw_thread>>

\* ControlFlow::Exit: event_loop.run ends the process, the spawned thread
\* with it
main_exit ==
    /\ main_thread.pc = "event_loop"
    /\ main_thread.control_flow = "Exit"
    /\ main_thread' = [main_thread EXCEPT !.pc = "exited"]
    /\ draw_thread' = IF draw_thread \in {"none", "panicked"} THEN draw_thread
                      ELSE "killed"
    /\ UNCHANGED <<registry, gpu, history, panicked, application, ticks,
                   app_args>>

DrawThreadReturn == \E acquire \in AcquireResults : draw_thread_return(acquire)
EventDispatch == \E event \in MainEvents : event_dispatch(event)
NextMain ==
    \/ main_load_model \/ main_spawn
    \/ draw_thread_call \/ DrawThreadReturn \/ draw_thread_wake
    \/ EventDispatch \/ event_return \/ main_exit
SpecMain == Init /\ [][NextMain]_vars

\* ----------------------------------------------------------- App and Renderer
\* What the render stages read of a packet the App built: the matrices, the
\* handles, and instances.len() / sprites.len() of every group.
RendererPacket(packet) ==
    [view |-> packet.view, proj |-> packet.proj,
     models |->
        [i \in 1..Len(packet.models) |->
            [model_id |-> packet.models[i].model_id,
             instances |-> Len(packet.models[i].instances)]],
     overlay_sprites |->
        [i \in 1..Len(packet.overlay_sprites) |->
            [atlas_id |-> packet.overlay_sprites[i].atlas_id,
             sprites |-> Len(packet.overlay_sprites[i].sprites)]]]

\* App::new(model, ui_atlas), before the first tick and the first frame
app_new(model, ui_atlas) ==
    /\ panicked = NoPanic
    /\ ticks = 0
    /\ draw_calls = 0
    /\ app' = AppNew(model, ui_atlas)
    /\ app_args' = [model |-> model, ui_atlas |-> ui_atlas]
    /\ last_call' = [op |-> "App::new", arg |-> <<model, ui_atlas>>]
    /\ UNCHANGED <<registry, gpu, trace, draw_calls, issued_models,
                   issued_atlases, panicked, camera, ticks, main_thread,
                   draw_thread>>

\* Run: uploads, App::new with any handles, a key, ticks, packet generation,
\* and draw_frame on the packet generate_frame_packet has just returned.
RunUploadModel == \E data \in ModelData : upload_model(data)
RunUploadAtlas == \E data \in Images : upload_atlas(data)
RunAppNew ==
    \E model \in ModelIds, ui_atlas \in AtlasIds : app_new(model, ui_atlas)
RunKeyboardInput == \E event \in KeyboardInputs({17}) : handle_event(event)
RunTick == tick(900)
RunGenerateFramePacket == generate_frame_packet("16:9")
RunDrawGenerated ==
    \E acquire \in AcquireResults :
        /\ last_call.op = "generate_frame_packet"
        /\ draw_frame(RendererPacket(last_call.ret), acquire)
NextRun ==
    \/ RunUploadModel \/ RunUploadAtlas \/ RunAppNew \/ RunKeyboardInput
    \/ RunTick \/ RunGenerateFramePacket \/ RunDrawGenerated
SpecRun == Init /\ [][NextRun]_vars

\* Frames: meshes of two sizes, and valid packets (every id issued) with two
\* views, whose groups are empty ones on the first handle issued and groups
\* of two on the latest handle issued, drawn on an acquired image.
MeshIndexCounts == {6, 36}
FrameViews == {"view", "view2"}
MeshData == [indices_len : MeshIndexCounts, texture : Images]
ModelGroups(model_ids) ==
    {[model_id |-> id, instances |-> 0] :
        id \in {i \in model_ids : \A j \in model_ids : i <= j}}
    \cup {[model_id |-> id, instances |-> 2] :
        id \in {i \in model_ids : \A j \in model_ids : i >= j}}
SpriteGroups(atlas_ids) ==
    {[atlas_id |-> id, sprites |-> 0] :
        id \in {i \in atlas_ids : \A j \in atlas_ids : i <= j}}
    \cup {[atlas_id |-> id, sprites |-> 2] :
        id \in {i \in atlas_ids : \A j \in atlas_ids : i >= j}}
ValidFramePacket(model_ids, atlas_ids) ==
    UNION {[view : FrameViews, proj : Projs,
            models : [1..m -> ModelGroups(model_ids)],
            overlay_sprites :
                SeqUpTo(SpriteGroups(atlas_ids), MaxGroups - m)]
           : m \in 0..MaxGroups}
FramesUploadModel == \E data \in MeshData : upload_model(data)
FramesUploadAtlas == \E data \in Images : upload_atlas(data)
FramesDrawFrame ==
    \E packet \in ValidFramePacket(DOMAIN models, DOMAIN atlases) :
        draw_frame(packet, "Ok")
NextFrames == FramesUploadModel \/ FramesUploadAtlas \/ FramesDrawFrame
SpecFrames == Init /\ [][NextFrames]_vars

\* ================================================================== claims
IsDraw == last_call.op = "draw_frame"

\* C1: model handles are allocated monotonically and never reused: the k-th
\* upload_model call (k = 0, 1, ...) returns ModelId(k), whatever upload_atlas
\* and draw_frame calls come in between, and no two calls return the same id.
C1_ModelIdsSequential ==
    /\ \A k \in 1..Len(issued_models) : issued_models[k] = k - 1
    /\ \A j, k \in 1..Len(issued_models) :
          j # k => issued_models[j] # issued_models[k]
    /\ last_call.op = "upload_model" => last_call.ret = Len(issued_models) - 1

\* C1 witness: the second upload_model returns 1 after an atlas upload and a
\* draw_frame call have happened.
C1_Witness ==
    /\ last_call.op = "upload_model"
    /\ last_call.ret = 1
    /\ Len(issued_atlases) >= 1
    /\ draw_calls >= 1

\* C2: atlas handles are allocated the same way in their own id space: the
\* k-th upload_atlas call returns AtlasId(k) however many models were
\* uploaded, upload_model never moves next_atlas_id and upload_atlas never
\* moves next_model_id (each counter equals the number of uploads of its kind).
C2_AtlasIdsIndependent ==
    /\ \A k \in 1..Len(issued_atlases) : issued_atlases[k] = k - 1
    /\ next_atlas_id = Len(issued_atlases)
    /\ next_model_id = Len(issued_models)
    /\ last_call.op = "upload_atlas" => last_call.ret = Len(issued_atlases) - 1

\* C2 witness: the first atlas upload returns 0 although two models were
\* uploaded before it.
C2_Witness ==
    /\ last_call.op = "upload_atlas"
    /\ last_call.ret = 0
    /\ Len(issued_models) = 2

\* C3: no handle is half-registered: between operations the keys of
\* Renderer.models and of the forward stage's bind groups are both
\* {0 .. next_model_id-1}, and the keys of Renderer.atlases and of the sprite
\* stage's bind groups are both {0 .. next_atlas_id-1}.
C3_NoHalfRegistered ==
    /\ DOMAIN models = 0..(next_model_id - 1)
    /\ DOMAIN forward_tbg = 0..(next_model_id - 1)
    /\ DOMAIN atlases = 0..(next_atlas_id - 1)
    /\ DOMAIN sprite_tbg = 0..(next_atlas_id - 1)

\* C3 witness: two models and one atlas are registered.
C3_Witness ==
    /\ next_model_id = 2
    /\ next_atlas_id = 1
    /\ DOMAIN forward_tbg = {0, 1}
    /\ DOMAIN sprite_tbg = {0}

\* Every entry of the map is still there, unchanged, in the next state.
Kept(map, map_next) ==
    \A k \in DOMAIN map : k \in DOMAIN map_next /\ map_next[k] = map[k]

\* C4: the registry is append-only: no operation removes or replaces an entry
\* of the model map, the atlas map or either stage's bind group map, so an
\* issued handle resolves to the same resource record in every later state.
C4_AppendOnly ==
    [][/\ Kept(models, models')
       /\ Kept(atlases, atlases')
       /\ Kept(forward_tbg, forward_tbg')
       /\ Kept(sprite_tbg, sprite_tbg')]_vars

\* C4 witness: with two models and two atlases registered, a draw_frame call
\* has returned.
C4_Witness ==
    /\ next_model_id = 2
    /\ next_atlas_id = 2
    /\ IsDraw
    /\ last_call.ret = "ok"

\* The render passes of the sequence that a stage recorded.
PassesOf(cmds, stage) ==
    {i \in 1..Len(cmds) : cmds[i].op = "render_pass" /\ cmds[i].stage = stage}

\* The position of the first occurrence of a call in a call log, 0 if none.
FirstIndex(log, call) ==
    IF \E i \in 1..Len(log) : log[i] = call
    THEN CHOOSE i \in 1..Len(log) :
             log[i] = call /\ \A j \in 1..(i - 1) : log[j] # call
    ELSE 0

\* C5: in every draw_frame the overlay stage never runs before the forward
\* stage: every forward render pass precedes every overlay render pass in the
\* frame's command sequence (recorded and submitted), and the overlay stage is
\* only invoked after the forward stage.
C5_ForwardBeforeOverlay ==
    /\ \A f \in PassesOf(encoder, "forward"), o \in PassesOf(encoder, "sprite") :
          f < o
    /\ \A f \in PassesOf(submitted, "forward"), o \in PassesOf(submitted, "sprite") :
          f < o
    /\ FirstIndex(trace, "sprite_overlay_render_stage") > 0 =>
          /\ FirstIndex(trace, "forward_render_stage") > 0
          /\ FirstIndex(trace, "forward_render_stage")
                < FirstIndex(trace, "sprite_overlay_render_stage")

\* C5 witness: a submitted frame holds a forward pass and an overlay pass.
C5_Witness ==
    /\ IsDraw
    /\ last_call.ret = "ok"
    /\ PassesOf(submitted, "forward") # {}
    /\ PassesOf(submitted, "sprite") # {}

\* The packet carries a model id that upload_model never returned.
HasUnknownModel(packet) ==
    \E i \in 1..Len(packet.models) : packet.models[i].model_id >= next_model_id

\* The packet carries an atlas id that upload_atlas never returned.
HasUnknownAtlas(packet) ==
    \E j \in 1..Len(packet.overlay_sprites) :
        packet.overlay_sprites[j].atlas_id >= next_atlas_id

Called(call) == \E i \in 1..Len(trace) : trace[i] = call

\* C6 as stated: after exactly two model uploads a packet carrying handle 2
\* aborts draw_frame, and in general draw_frame aborts iff some model group's
\* id is >= next_model_id or some atlas group's id is unknown.
C6_Original ==
    IsDraw =>
        /\ (next_model_id = 2 /\ \E i \in 1..Len(last_call.arg.models) :
                                     last_call.arg.models[i].model_id = 2)
              => last_call.ret = "panic"
        /\ last_call.ret = "panic"
              <=> (HasUnknownModel(last_call.arg) \/ HasUnknownAtlas(last_call.arg))

\* C6 amended: after exactly two model uploads a packet carrying handle 2 at
\* any position aborts draw_frame; once the surface image has been acquired,
\* draw_frame aborts iff some model group's id is >= next_model_id or some
\* atlas group's id is unknown, and an unknown model id aborts with the
\* forward stage's unknown-id panic; when the acquisition fails draw_frame
\* aborts whatever the packet holds.
C6_UnknownModelAborts ==
    IsDraw =>
        /\ (next_model_id = 2 /\ \E i \in 1..Len(last_call.arg.models) :
                                     last_call.arg.models[i].model_id = 2)
              => last_call.ret = "panic"
        /\ last_call.acquire = "Ok" =>
              /\ last_call.ret = "panic"
                    <=> (HasUnknownModel(last_call.arg)
                            \/ HasUnknownAtlas(last_call.arg))
              /\ HasUnknownModel(last_call.arg) => panicked = UnknownModel
        /\ last_call.acquire # "Ok" => last_call.ret = "panic"

\* C6 witness: two models are uploaded and the packet's second model group
\* carries handle 2 after a valid first group; the forward stage panics.
C6_Witness ==
    /\ IsDraw
    /\ last_call.acquire = "Ok"
    /\ next_model_id = 2
    /\ Len(last_call.arg.models) = 2
    /\ last_call.arg.models[1].model_id = 0
    /\ last_call.arg.models[2].model_id = 2
    /\ panicked = UnknownModel

\* C7: a packet whose overlay_sprites list carries an AtlasId never issued
\* makes the sprite overlay stage abort at draw time: whenever the overlay
\* stage runs on such a packet it panics, whatever the position of the group;
\* with the surface image acquired and all model groups valid the overlay
\* stage is reached and panics; in every case draw_frame aborts.
C7_UnknownAtlasAborts ==
    (IsDraw /\ HasUnknownAtlas(last_call.arg)) =>
        /\ last_call.ret = "panic"
        /\ Called("sprite_overlay_render_stage") => panicked = UnknownAtlas
        /\ (last_call.acquire = "Ok" /\ ~HasUnknownModel(last_call.arg)) =>
              /\ Called("sprite_overlay_render_stage")
              /\ panicked = UnknownAtlas

\* C7 witness: the packet has one valid model group, whose pass was recorded,
\* and one sprite group with an atlas id never issued; the overlay stage
\* panics.
C7_Witness ==
    /\ IsDraw
    /\ Len(last_call.arg.models) = 1
    /\ ~HasUnknownModel(last_call.arg)
    /\ HasUnknownAtlas(last_call.arg)
    /\ PassesOf(encoder, "forward") # {}
    /\ panicked = UnknownAtlas

\* C8: when acquiring the next surface image fails, draw_frame fails fatally:
\* the acquisition is tried once, no encoder is created, no stage is invoked,
\* nothing is submitted (every submitted frame belongs to an earlier call)
\* and the caller gets the panic.
C8_AcquireFailureIsFatal ==
    (IsDraw /\ last_call.acquire # "Ok") =>
        /\ trace = <<"get_next_texture">>
        /\ panicked = AcquireFailed
        /\ last_call.ret = "panic"
        /\ queue[FrameLabel] = draw_calls - 1

\* C8 witness: the acquisition fails for a packet whose groups are all known
\* and not empty.
C8_Witness ==
    /\ IsDraw
    /\ last_call.acquire = "Err"
    /\ Len(last_call.arg.models) >= 1
    /\ Len(last_call.arg.overlay_sprites) >= 1
    /\ ~HasUnknownModel(last_call.arg)
    /\ ~HasUnknownAtlas(last_call.arg)
    /\ panicked = AcquireFailed

\* C9: a frame that hits a fatal condition (acquisition failure, unknown
\* model or atlas handle, also after valid groups were recorded) submits
\* nothing: the step that panics leaves the queue and the latest submitted
\* command buffer as they were.
C9_NoSubmitOnAbort ==
    [][panicked' # NoPanic => (queue' = queue /\ submitted' = submitted)]_vars

\* C9 witness: the forward stage panicked on an unknown model id after the
\* pass of a valid group had been recorded into the encoder.
C9_Witness ==
    /\ panicked = UnknownModel
    /\ PassesOf(encoder, "forward") # {}
    /\ submitted # encoder

\* C10: every successful draw_frame creates one encoder and submits once, the
\* submitted buffer being the forward stage's work (uniform copy, one pass
\* per model group) followed by the overlay stage's work (one pass per sprite
\* group); the number of frame submissions equals the number of successful
\* draw_frame calls.
C10_OneSubmissionPerFrame ==
    /\ queue[FrameLabel] = draw_calls - (IF panicked = NoPanic THEN 0 ELSE 1)
    /\ (IsDraw /\ last_call.ret = "ok") =>
          LET packet == last_call.arg
              nm == Len(packet.models)
              ns == Len(packet.overlay_sprites)
          IN  /\ trace = <<"get_next_texture", "create_command_encoder",
                           "forward_render_stage",
                           "sprite_overlay_render_stage", "submit">>
              /\ submitted = encoder
              /\ Len(submitted) = 1 + nm + ns
              /\ submitted[1].op = "copy_buffer_to_buffer"
              /\ \A i \in 1..nm :
                    /\ submitted[1 + i].op = "render_pass"
                    /\ submitted[1 + i].stage = "forward"
                    /\ submitted[1 + i].bind_group
                          = forward_tbg[packet.models[i].model_id]
              /\ \A j \in 1..ns :
                    /\ submitted[1 + nm + j].op = "render_pass"
                    /\ submitted[1 + nm + j].stage = "sprite"
                    /\ submitted[1 + nm + j].bind_group
                          = sprite_tbg[packet.overlay_sprites[j].atlas_id]

\* C10 witness: the second of two successful draw_frame calls submitted a
\* frame with a model group and a sprite group.
C10_Witness ==
    /\ IsDraw
    /\ last_call.ret = "ok"
    /\ draw_calls = 2
    /\ queue[FrameLabel] = 2
    /\ Len(last_call.arg.models) = 1
    /\ Len(last_call.arg.overlay_sprites) = 1

\* ------------------------------------------------------ application claims
\* The call handled exactly one logical event: key k going to state s.
HandledKey(call, k, s) ==
    /\ call.op = "handle_event"
    /\ call.ret = <<[kind |-> "Key", new_state |-> s, logical_key |-> k]>>

\* C11: key-down followed by key-up of the same logical key returns the
\* velocity accumulator to its pre-press value exactly, for each of the six
\* logical keys and any accumulator value (other keys held or not): applying
\* the down and the up to the current accumulator gives it back, and when a
\* handle_event call that delivered the key-down is followed by one that
\* delivers the key-up, the accumulator is what it was before the press.
C11_KeyUpCancelsKeyDown ==
    [][\A k \in LogicalKeys :
          /\ handle_key_event(handle_key_event(app, k, "Down"), k, "Up")
                 .camera_velocity = app.camera_velocity
          /\ (HandledKey(last_call, k, "Down") /\ HandledKey(last_call', k, "Up"))
                => app'.camera_velocity = last_call.before.camera_velocity]_vars

\* C11 witness: MoveForward was released while StrafeRight and MoveDown stay
\* held; the accumulator is back to what the two held keys give.
C11_Witness ==
    /\ HandledKey(last_call, "MoveForward", "Up")
    /\ last_call.before.camera_velocity = <<10, 10, -10>>
    /\ app.camera_velocity = <<10, 0, -10>>

\* The call handed a raw keyboard event to the input manager.
RawKey(call) == call.op = "handle_event" /\ call.arg.kind = "Key"

\* The raw event's level is the one already tracked for its scancode.
SameLevel(call) ==
    TrackedState(call.before.input_manager, call.arg.scancode)
        = NewState(call.arg.state)

\* C12: the velocity accumulator is changed only by key-state transitions: a
\* raw Pressed for a scancode tracked Down (key repeat) or a raw Released for
\* a scancode tracked Up (also one never seen) queues no logical event and
\* leaves the accumulator unchanged, and whenever a handle_event call changed
\* the accumulator the event was a raw key event whose level differs from
\* the tracked one.
C12_OnlyTransitionsMoveTheAccumulator ==
    /\ (RawKey(last_call) /\ SameLevel(last_call)) =>
          /\ last_call.ret = <<>>
          /\ app.input_manager.logical_events = <<>>
          /\ app.camera_velocity = last_call.before.camera_velocity
    /\ (last_call.op = "handle_event"
            /\ app.camera_velocity # last_call.before.camera_velocity) =>
          (RawKey(last_call) /\ ~SameLevel(last_call))

\* C12 witness: a repeated Pressed of the W scancode while W is tracked Down
\* and the camera is moving.
C12_Witness ==
    /\ RawKey(last_call)
    /\ last_call.arg = [kind |-> "Key", scancode |-> 17, state |-> "Pressed"]
    /\ TrackedState(last_call.before.input_manager, 17) = "Down"
    /\ app.camera_velocity = <<0, 10, 0>>

MaxElevation == FRAC_PI_2 - PanMargin

\* C13: pan_vertical never drives the elevation outside
\* [-(90 deg - eps), 90 deg - eps], eps = 0.01 rad: from an elevation inside
\* the range, after any sequence of pan_vertical and pan_horizonal calls the
\* elevation is inside the range (the boundary itself is reached), so the
\* direction is never vertical, its cross product with +Z is never the zero
\* vector and the right axis is a proper unit vector.
C13_ElevationStaysInRange ==
    /\ ~camera.direction.nan
    /\ camera.direction.el >= 0 - MaxElevation
    /\ camera.direction.el <= MaxElevation
    /\ ~CrossIsZero(camera.direction)
    /\ ~RightAxis(camera.direction).nan

\* C13 witness: after a turn, a second upward pan from an elevation strictly
\* inside the range was cut short and ended exactly on the upper boundary.
C13_Witness ==
    /\ last_call.op = "pan_vertical"
    /\ last_call.before.direction.el > 0
    /\ last_call.before.direction.el < MaxElevation
    /\ last_call.before.direction.az # 0
    /\ last_call.applied < last_call.arg
    /\ camera.direction.el = MaxElevation

\* C14: with the elevation at the upper (lower) clamp boundary, pan_vertical
\* with any positive (negative) angle is a no-op: the angle applied is zero
\* and the camera is unchanged.
C14_NoOpAtTheBoundary ==
    (/\ last_call.op = "pan_vertical"
     /\ \/ last_call.before.direction.el = MaxElevation /\ last_call.arg > 0
        \/ last_call.before.direction.el = 0 - MaxElevation /\ last_call.arg < 0)
    => /\ last_call.applied = 0
       /\ camera = last_call.before

\* C14 witness: pan_vertical(45 deg) was called at the upper boundary.
C14_Witness ==
    /\ last_call.op = "pan_vertical"
    /\ last_call.before.direction.el = MaxElevation
    /\ last_call.arg = Deg(45)
    /\ camera.direction.el = MaxElevation

\* C15: pan_horizonal round-trips: for every angle theta and every direction,
\* pan_horizonal(theta) followed by pan_horizonal(-theta) gives the direction
\* back: so for the camera's current direction and every angle, and so when a
\* pan_horizonal call is followed by the call with the opposite angle.
C15_HorizontalRoundTrip ==
    [][/\ \A theta \in PanAngles :
             pan_horizonal(pan_horizonal(camera, theta), 0 - theta) = camera
       /\ (/\ last_call.op = "pan_horizonal"
           /\ last_call'.op = "pan_horizonal"
           /\ last_call'.arg = 0 - last_call.arg)
          => camera'.direction = last_call.before.direction]_vars

\* C15 witness: a camera looking 45 degrees up along +X is back there after
\* pan_horizonal(-45 degrees) undid a pan by 45 degrees.
C15_Witness ==
    /\ last_call.op = "pan_horizonal"
    /\ last_call.arg = Deg(-45)
    /\ last_call.before.direction.az = Deg(315)
    /\ camera.direction = normalize(<<1, 0, 1>>)

\* The camera App::new builds: at (2,2,0) facing normalize(-1,-1,0).
AppNewCamera == AppNew(0, 0).main_camera

\* pan_horizonal(90 degrees) was called on the camera App::new builds.
PannedRightFromAppNew ==
    /\ last_call.op = "pan_horizonal"
    /\ last_call.arg = Deg(90)
    /\ last_call.before = AppNewCamera

\* C16 as stated: with the camera at (2,2,0) facing normalize(-1,-1,0),
\* pan_horizonal(90 degrees) rotates the direction to normalize(1,-1,0).
C16_Original ==
    PannedRightFromAppNew => camera.direction = normalize(<<1, -1, 0>>)

\* C16 amended: with the camera at (2,2,0) facing normalize(-1,-1,0),
\* pan_horizonal(90 degrees) rotates the direction to normalize(-1,1,0) (the
\* rotation about +Z by -90 degrees) and leaves the location at (2,2,0).
C16_PanRightFromAppNew ==
    PannedRightFromAppNew =>
        /\ camera.direction = normalize(<<-1, 1, 0>>)
        /\ camera.location = <<2, 2, 0>>

\* C16 witness: the first call on the camera App::new builds was
\* pan_horizonal(90 degrees).
C16_Witness ==
    /\ PannedRightFromAppNew
    /\ camera.location = <<2, 2, 0>>
    /\ camera.direction.el = 0

\* The directions of the 45 degree grid that are not vertical.
GridVectors ==
    {v \in {-1, 0, 1} \X {-1, 0, 1} \X {-1, 0, 1} :
        /\ v[1] # 0 \/ v[2] # 0
        /\ v[3] # 0 => (v[1] = 0 \/ v[2] = 0)}

\* The right-hand rotation of (x, y) by -90 degrees, z unchanged.
QuarterTurnRight(v) == <<v[2], 0 - v[1], v[3]>>

\* The right-hand rotation of (x, y) by +90 degrees, z unchanged.
QuarterTurnLeft(v) == <<0 - v[2], v[1], v[3]>>

\* C17: pan_horizonal(angle) rotates the direction about +Z by -angle with no
\* clamping: the heading turns by -angle (modulo a full turn), the elevation
\* and the location are unchanged; from (1,0,0), +90 degrees gives (0,-1,0)
\* and -90 degrees gives (0,1,0); a +90 (-90) degree pan maps (x,y,z) to the
\* right-hand rotation of (x,y) by -90 (+90) degrees with z unchanged; a pan
\* by whole turns gives the direction back.
C17_HorizontalPanRotatesAboutZ ==
    last_call.op = "pan_horizonal" =>
        LET before == last_call.before.direction
            after == camera.direction
        IN  /\ ~after.nan
            /\ after.el = before.el
            /\ after.az = (before.az - last_call.arg) % FullTurn
            /\ camera.location = last_call.before.location
            /\ (before = normalize(<<1, 0, 0>>) /\ last_call.arg = Deg(90))
                  => after = normalize(<<0, -1, 0>>)
            /\ (before = normalize(<<1, 0, 0>>) /\ last_call.arg = Deg(-90))
                  => after = normalize(<<0, 1, 0>>)
            /\ \A v \in GridVectors :
                  /\ (before = normalize(v) /\ last_call.arg = Deg(90))
                        => after = normalize(QuarterTurnRight(v))
                  /\ (before = normalize(v) /\ last_call.arg = Deg(-90))
                        => after = normalize(QuarterTurnLeft(v))
            /\ last_call.arg % FullTurn = 0 => after = before

\* C17 witness: pan_horizonal(90 degrees) turned a camera facing (1,0,0) to
\* (0,-1,0).
C17_Witness ==
    /\ last_call.op = "pan_horizonal"
    /\ last_call.arg = Deg(90)
    /\ last_call.before.direction = normalize(<<1, 0, 0>>)
    /\ camera.direction = normalize(<<0, -1, 0>>)

\* clamp(x, lo, hi)
Clamp(x, lo, hi) == IF x > hi THEN hi ELSE IF x < lo THEN lo ELSE x

\* A direction by its heading and elevation.
Facing(az, el) == [az |-> az, el |-> el, nan |-> FALSE]

\* C18: pan_vertical(a) from elevation e yields the elevation
\* clamp(e + a, -(90 deg - eps), 90 deg - eps) and leaves the heading and the
\* location unchanged: from (1,0,0), 45 degrees gives (sqrt(0.5), 0,
\* sqrt(0.5)); a further 90 degrees ends eps below straight up; then -90, -45
\* and -90 degrees end eps below horizontal, eps below 45 degrees down, and
\* eps above straight down.
C18_VerticalPanClamps ==
    last_call.op = "pan_vertical" =>
        LET before == last_call.before.direction
            after == camera.direction
            a == last_call.arg
        IN  /\ ~after.nan
            /\ after.el = Clamp(before.el + a, 0 - MaxElevation, MaxElevation)
            /\ after.az = before.az
            /\ camera.location = last_call.before.location
            /\ (before = normalize(<<1, 0, 0>>) /\ a = Deg(45))
                  => after = normalize(<<1, 0, 1>>)
            /\ (before = normalize(<<1, 0, 1>>) /\ a = Deg(90))
                  => after = Facing(0, FRAC_PI_2 - PanMargin)
            /\ (before = Facing(0, FRAC_PI_2 - PanMargin) /\ a = Deg(-90))
                  => after = Facing(0, 0 - PanMargin)
            /\ (before = Facing(0, 0 - PanMargin) /\ a = Deg(-45))
                  => after = Facing(0, Deg(-45) - PanMargin)
            /\ (before = Facing(0, Deg(-45) - PanMargin) /\ a = Deg(-90))
                  => after = Facing(0, PanMargin - FRAC_PI_2)

\* C18 witness: the last step of the sequence 45, 90, -90, -45, -90 degrees
\* from (1,0,0): the camera ends eps above straight down.
C18_Witness ==
    /\ last_call.op = "pan_vertical"
    /\ last_call.arg = Deg(-90)
    /\ last_call.before.direction = Facing(0, Deg(-45) - PanMargin)
    /\ last_call.applied > Deg(-90)
    /\ camera.direction = Facing(0, PanMargin - FRAC_PI_2)

\* C19: generate_frame_packet is a pure function of the App and the aspect
\* ratio: the call leaves every field of the App (input manager, camera,
\* velocity accumulator, object, atlas handle) as it was, and a call that
\* directly follows a call with the same aspect ratio returns the same
\* packet (view, proj, handles, instance data).
C19_GenerateFramePacketIsPure ==
    last_call.op = "generate_frame_packet" =>
        /\ app = last_call.before
        /\ panicked = NoPanic
        /\ \A i \in 1..Len(last_call.prev) : last_call.ret = last_call.prev[i]

\* C19 witness: the second of two generate_frame_packet calls in a row with
\* the same aspect ratio, with a key held and the camera panned.
C19_Witness ==
    /\ last_call.op = "generate_frame_packet"
    /\ Len(last_call.prev) = 1
    /\ app.camera_velocity # <<0, 0, 0>>
    /\ app.main_camera.direction # AppNewCamera.direction
    /\ app.main_camera.direction.el # 0

\* ------------------------------------------------------- frame contents
\* The number of commands the forward stage recorded; they come first.
ForwardEnd(cmds) ==
    Cardinality({i \in 1..Len(cmds) : cmds[i].stage = "forward"})

DrawnOk == IsDraw /\ last_call.ret = "ok"

\* C21: the forward stage draws all model instances of the packet: for a
\* packet with n >= 1 model groups, when the forward stage finishes the color
\* and the depth target hold the draw output of every one of the n groups (no
\* group's output is discarded by a later group's render pass).
C21_ForwardKeepsEveryGroup ==
    (DrawnOk /\ Len(last_call.arg.models) >= 1) =>
        /\ Cardinality(PassesOf(submitted, "forward")) = Len(last_call.arg.models)
        /\ ColorTarget(submitted, ForwardEnd(submitted)).outputs
              = PassesOf(submitted, "forward")
        /\ DepthTarget(submitted, ForwardEnd(submitted)).outputs
              = PassesOf(submitted, "forward")

\* The first overlay pass of the command buffer, 0 if there is none.
FirstOverlay(cmds) ==
    IF PassesOf(cmds, "sprite") = {} THEN 0
    ELSE CHOOSE o \in PassesOf(cmds, "sprite") :
             \A p \in PassesOf(cmds, "sprite") : o <= p

\* C22: the overlay composites over the 3D result of the same frame: every
\* overlay pass loads (never clears) the color target, and for every packet,
\* one with zero model groups included, the color contents the first overlay
\* pass loads were written by the forward stage during the same draw_frame
\* call, not left over from an earlier frame.
C22_OverlayLoadsThisFramesForward ==
    DrawnOk =>
        /\ \A o \in PassesOf(submitted, "sprite") :
              submitted[o].color_load_op = "Load"
        /\ FirstOverlay(submitted) > 0 =>
              LET loaded == ColorTarget(submitted, FirstOverlay(submitted) - 1)
              IN  /\ ~loaded.stale
                  /\ loaded.outputs # {}
                  /\ loaded.outputs \subseteq PassesOf(submitted, "forward")

\* C23: for a valid packet, draw_frame issues exactly one draw call per group,
\* in packet order: one indexed draw per model group, with the group's
\* instances length as instance count and the uploaded model's index count as
\* index count, then one 4-vertex draw per atlas group with the group's
\* sprites length as instance count; |models| + |overlay_sprites| draw calls
\* in total, groups whose instance list is empty included.
C23_OneDrawPerGroup ==
    DrawnOk =>
        LET packet == last_call.arg
            m == Len(packet.models)
            o == Len(packet.overlay_sprites)
        IN  /\ Cardinality(PassesOf(submitted, "forward")
                              \cup PassesOf(submitted, "sprite")) = m + o
            /\ Len(submitted) = 1 + m + o
            /\ \A k \in 1..m :
                  /\ submitted[1 + k].op = "render_pass"
                  /\ submitted[1 + k].stage = "forward"
                  /\ submitted[1 + k].draw = "draw_indexed"
                  /\ submitted[1 + k].count
                        = models[packet.models[k].model_id].index_count
                  /\ submitted[1 + k].instances = packet.models[k].instances
            /\ \A k \in 1..o :
                  /\ submitted[1 + m + k].op = "render_pass"
                  /\ submitted[1 + m + k].stage = "sprite"
                  /\ submitted[1 + m + k].draw = "draw"
                  /\ submitted[1 + m + k].count = 4
                  /\ submitted[1 + m + k].instances
                        = packet.overlay_sprites[k].sprites

\* C23 witness: a frame was drawn from a packet with two model groups, the
\* first of a 36-index mesh with an empty instance list, the second of a
\* 6-index mesh with two instances.
C23_Witness ==
    /\ DrawnOk
    /\ Len(last_call.arg.models) = 2
    /\ last_call.arg.models[1].instances = 0
    /\ models[last_call.arg.models[1].model_id].index_count = 36
    /\ last_call.arg.models[2].instances = 2
    /\ models[last_call.arg.models[2].model_id].index_count = 6

\* C23 witness for the overlay: a model group and a sprite group with an
\* empty sprite list were drawn.
C23_WitnessOverlay ==
    /\ DrawnOk
    /\ Len(last_call.arg.models) = 1
    /\ Len(last_call.arg.overlay_sprites) = 1
    /\ last_call.arg.overlay_sprites[1].sprites = 0

\* The positions of the uniform copies in the command buffer.
UniformWrites(cmds) ==
    {i \in 1..Len(cmds) : cmds[i].op = "copy_buffer_to_buffer"}

\* C24: in every frame the view/projection uniform is written exactly once,
\* from the packet's view and proj; the write is recorded before the first
\* draw call of the frame, and every model group of the frame is drawn with
\* that same uniform value.
C24_UniformWrittenOnceFirst ==
    DrawnOk =>
        /\ UniformWrites(submitted) = {1}
        /\ submitted[1].view = last_call.arg.view
        /\ submitted[1].proj = last_call.arg.proj
        /\ \A f \in PassesOf(submitted, "forward") :
              /\ f > 1
              /\ UniformBuff(submitted, f)
                    = [view |-> last_call.arg.view, proj |-> last_call.arg.proj]

\* C24 witness: the second frame, of two model groups, is drawn with another
\* view than the frame before it.
C24_Witness ==
    /\ DrawnOk
    /\ draw_calls = 2
    /\ Len(last_call.arg.models) = 2
    /\ last_call.arg.view = "view2"
    /\ UniformBuff(submitted, 3) = [view |-> "view2", proj |-> "proj"]

\* ------------------------------------------------------------ simulation
IsTick == last_call.op = "tick"

\* C25: tick(dt) changes only the world object's orientation and the camera's
\* location: the velocity accumulator, the camera's direction, clip planes
\* and field of view, the object's position, scale and model handle, the
\* atlas handle (and the input manager) are as before the call; the object
\* turns about +Z by an angle that depends only on dt (100 degrees per
\* second), whatever keys are held and wherever the camera looks.
C25_TickMovesOnlySpinAndLocation ==
    IsTick =>
        LET b == last_call.before
            dt == last_call.arg
        IN  /\ app.camera_velocity = b.camera_velocity
            /\ app.input_manager = b.input_manager
            /\ app.main_camera.direction = b.main_camera.direction
            /\ app.main_camera.near_clip = b.main_camera.near_clip
            /\ app.main_camera.far_clip = b.main_camera.far_clip
            /\ app.main_camera.vertical_fov = b.main_camera.vertical_fov
            /\ app.object.pos = b.object.pos
            /\ app.object.scale = b.object.scale
            /\ app.object.model = b.object.model
            /\ app.ui_atlas = b.ui_atlas
            /\ app.object.angle.about_x = b.object.angle.about_x
            /\ app.object.angle.about_z
                  = (b.object.angle.about_z + (Deg(100) * dt) \div 2000)
                        % FullTurn

\* C25 witness: a tick of 0.9 s with W and A held and the camera looking up
\* has moved the camera and turned the object by 90 degrees.
C25_Witness ==
    /\ IsTick
    /\ last_call.arg = 900
    /\ app.camera_velocity = <<-10, 10, 0>>
    /\ app.main_camera.direction.el > 0
    /\ app.main_camera.location # last_call.before.main_camera.location
    /\ app.object.angle.about_z
          = (last_call.before.object.angle.about_z + Deg(45)) % FullTurn

\* C28: the singular-transform fatal path is unreachable: in every state
\* reached from App::new by input events and ticks the object's scale is the
\* 0.4 it was built with, its orientation is a rotation (finite half angles
\* of a unit quaternion), the model-view matrix is not singular, and
\* generate_frame_packet has never aborted in normal_matrix.
C28_TransformNeverSingular ==
    /\ app.object.scale = [num |-> 2, den |-> 5]
    /\ app.object.angle.about_x \in 0..(FullTurn - 1)
    /\ app.object.angle.about_z \in 0..(FullTurn - 1)
    /\ ~normal_matrix(app.object, view(app.main_camera)).singular
    /\ panicked # ZeroDeterminant
    /\ last_call.op = "generate_frame_packet" =>
          ~last_call.ret.models[1].instances[1].normal_matrix.singular

\* C28 witness: generate_frame_packet returns after two ticks, with a key
\* held, the camera moved and turned upwards and the object turned about Z.
C28_Witness ==
    /\ last_call.op = "generate_frame_packet"
    /\ panicked = NoPanic
    /\ ticks = 2
    /\ app.camera_velocity # <<0, 0, 0>>
    /\ Len(app.main_camera.location) > 3
    /\ app.main_camera.direction.el > 0
    /\ app.object.angle.about_z # 0

\* The latest call is handle_event with a raw mouse motion.
MouseMoved == last_call.op = "handle_event" /\ last_call.arg.kind = "MouseMotion"

\* C26: a MouseMovement{x, y} logical event pans the camera horizontally by
\* x/1024 rad and then vertically by -y/1024 rad (the heading turns by
\* -x/1024, the elevation moves by -y/1024 and is clamped), so a negative y
\* (the mouse moving up) never lowers the elevation; the velocity
\* accumulator, the camera location and the world object are unchanged.
C26_MousePansCamera ==
    MouseMoved =>
        LET b == last_call.before
            x == last_call.arg.delta[1]
            y == last_call.arg.delta[2]
            horizontal == (x * UnitsPerRad) \div 1024
            vertical == ((0 - y) * UnitsPerRad) \div 1024
        IN  /\ last_call.ret = <<[kind |-> "MouseMovement", x |-> x, y |-> y]>>
            /\ app.main_camera.direction
                  = Facing((b.main_camera.direction.az - horizontal) % FullTurn,
                           Clamp(b.main_camera.direction.el + vertical,
                                 0 - MaxElevation, MaxElevation))
            /\ y < 0 => app.main_camera.direction.el >= b.main_camera.direction.el
            /\ app.camera_velocity = b.camera_velocity
            /\ app.main_camera.location = b.main_camera.location
            /\ app.object = b.object

\* C26 witness: with a key held, the mouse moves right and up while the
\* camera is below the upper limit; the heading turns and the elevation
\* rises.
C26_Witness ==
    /\ MouseMoved
    /\ last_call.arg.delta = <<40212, -804>>
    /\ app.camera_velocity # <<0, 0, 0>>
    /\ app.main_camera.direction.el > last_call.before.main_camera.direction.el
    /\ app.main_camera.direction.az # last_call.before.main_camera.direction.az

\* C26 witness at the limit: the mouse moves up with the camera already at
\* the upper limit; the elevation stays.
C26_WitnessAtLimit ==
    /\ MouseMoved
    /\ last_call.arg.delta[2] < 0
    /\ last_call.before.main_camera.direction.el = MaxElevation
    /\ app.main_camera.direction.el = MaxElevation

\* The scancodes tracked Down whose logical key is k.  Every transition of a
\* bound scancode emits one Key event of its logical key, so the size of this
\* set is the number of Down events emitted for k so far minus the number of
\* Up events.
Held(im, k) ==
    {sc \in DOMAIN im.key_states :
        im.key_states[sc] = "Down" /\ from_scancode(sc) = k}

\* C29: for every sequence of raw keyboard events over arbitrary u32
\* scancodes, the logical Key events of each LogicalKey strictly alternate
\* Down, Up, Down, ... starting with Down (a Down is emitted only while the
\* key has no Down outstanding, an Up only while it has one); so each logical
\* key contributes 0 or exactly one magnitude 10, every accumulator component
\* is in {-10, 0, +10}, and the accumulator is zero whenever no key is held.
C29_KeyEventsAlternate ==
    /\ \A k \in LogicalKeys :
          /\ Cardinality(Held(app.input_manager, k)) <= 1
          /\ HandledKey(last_call, k, "Down") =>
                Held(last_call.before.input_manager, k) = {}
          /\ HandledKey(last_call, k, "Up") =>
                Cardinality(Held(last_call.before.input_manager, k)) = 1
    /\ \A i \in 1..3 : app.camera_velocity[i] \in {-10, 0, 10}
    /\ (\A k \in LogicalKeys : Held(app.input_manager, k) = {}) =>
          app.camera_velocity = <<0, 0, 0>>

\* ---------------------------------------------------------------- threads
\* C27: input handling, simulation tick and frame drawing all execute on one
\* control thread driven by the host event loop: draw_frame is never invoked
\* from a thread other than the one running the event loop, and no
\* draw_frame runs concurrently with event handling.
C27_OneControlThread ==
    /\ draw_thread # "draw_frame"
    /\ last_call.op = "draw_frame" => last_call.thread = "main"
    /\ ~(draw_thread = "draw_frame" /\ main_thread.pc = "handler")

\* ------------------------------------------------------ generated packets
Range(seq) == {seq[i] : i \in 1..Len(seq)}

\* C30: every packet App::generate_frame_packet produces holds exactly one
\* model group with exactly one instance and the ModelId given to App::new,
\* and exactly one sprite group with the AtlasId given to App::new; so when
\* both handles were issued by the Renderer, draw_frame on a generated packet
\* never reaches an unknown-handle panic.
C30_GeneratedPacketsResolve ==
    /\ last_call.op = "generate_frame_packet" =>
          LET packet == last_call.ret
          IN  /\ Len(packet.models) = 1
              /\ Len(packet.models[1].instances) = 1
              /\ packet.models[1].model_id = app_args.model
              /\ Len(packet.overlay_sprites) = 1
              /\ packet.overlay_sprites[1].atlas_id = app_args.ui_atlas
    /\ (/\ IsDraw
        /\ app_args.model \in Range(issued_models)
        /\ app_args.ui_atlas \in Range(issued_atlases)) =>
          /\ panicked \notin {UnknownModel, NoTextureInfo, UnknownAtlas}
          /\ last_call.acquire = "Ok" =>
                /\ last_call.ret = "ok"
                /\ Len(submitted) = 3

\* C30 witness: the App was built with the second model and the second atlas
\* uploaded, a key was pressed and a tick has passed, and the generated
\* packet has been drawn.
C30_Witness ==
    /\ DrawnOk
    /\ app_args = [model |-> 1, ui_atlas |-> 1]
    /\ ticks >= 1
    /\ app.camera_velocity # <<0, 0, 0>>
    /\ last_call.arg.models = <<[model_id |-> 1, instances |-> 1]>>
    /\ last_call.arg.overlay_sprites = <<[atlas_id |-> 1, sprites |-> 1]>>
====
